---- MODULE Spec2Model ----
(***************************************************************************)
(* Model of src/app.py: the emission dashboard's pipeline.                 *)
(*                                                                         *)
(*   get_emission_data  one provider query per category, normalised into   *)
(*                      results[sector name][category] = value             *)
(*   compute_average    mean of a category over the sectors present        *)
(*   create_map         one marker per sector that has a coordinate        *)
(*   interpret_data     one action item per sector above the average       *)
(*   main               the calls above in sequence                        *)
(*                                                                         *)
(* Python dicts are functions whose DOMAIN is the key set.  Emission       *)
(* values are finite numbers, modelled by integers; a mean is the exact    *)
(* fraction [num, den] that statistics.mean computes before it converts    *)
(* the fraction back, and fractions are compared by cross-multiplication.  *)
(* The query's period is not part of the state: it only selects what the   *)
(* provider answers, and the provider's answer is unconstrained here.      *)
(***************************************************************************)
EXTENDS Integers, Sequences, FiniteSets, TLC

VARIABLES
    pc,          \* position in main / get_emission_data
    issued,      \* provider queries issued so far: [category_key, status, size]
    category,    \* index in CategoryOrder of the loop's current category
    data,        \* get_emission_data.data: the records being iterated
    idx,         \* number of items of data already taken by the for loop
    results,     \* get_emission_data.results, then main.data
    averages,    \* main.averages
    shown,       \* what main put on the page: "none", "map" or "warning"
    map_obj,     \* create_map's markers: sector -> colour
    actions      \* interpret_data's result: sector -> action item

vars == <<pc, issued, category, data, idx, results, averages,
          shown, map_obj, actions>>

----------------------------------------------------------------------------
(* Bounds *)

\* most elements the provider returns in one run, over its three responses
MaxRecords == 3

\* most sectors in an input of the function-level specification
MaxSectors == 2

----------------------------------------------------------------------------
(* Dicts *)

EmptyDict == [k \in {} |-> k]

Get(d, k, default) == IF k \in DOMAIN d THEN d[k] ELSE default

\* d[k] = v
Store(d, k, v) == [x \in DOMAIN d \cup {k} |-> IF x = k THEN v ELSE d[x]]

----------------------------------------------------------------------------
(* get_emission_data: tables *)

\* the categories dict in insertion order, which is the order of .items()
CategoryOrder == <<"total", "CO2", "other">>

categories == [total |-> "T001372", CO2 |-> "A044109", other |-> "A050122"]

sectors ==
    [A050123 |-> "Industrie",
     A050124 |-> "Elektriciteit",
     A050125 |-> "Mobiliteit",
     A050126 |-> "Landbouw",
     A050127 |-> "Gebouwde omgeving",
     A052138 |-> "Landgebruik"]

TotalRow == "T001616"

----------------------------------------------------------------------------
(* The provider *)

\* sector codes a response may carry: a known one, the total row, an unknown one
ProviderCodes == {"A050123", TotalRow, "X000000"}

\* emission values a response may carry
ProviderValues == {-1, 1}

\* a record of the value array: Klimaatsector and, unless the provider omits
\* it, EmissieBroeikasgassen_1
Records ==
    [Klimaatsector : ProviderCodes, EmissieBroeikasgassen_1 : ProviderValues]
    \cup [Klimaatsector : ProviderCodes]

\* an element of the value array that is no JSON object (a number, a string)
NonRecord == [scalar |-> "x"]

Items == Records \cup {NonRecord}

IsRecord(item) == "scalar" \notin DOMAIN item

RECURSIVE SeqsUpTo(_, _)
SeqsUpTo(S, n) ==
    IF n = 0 THEN {<<>>}
    ELSE LET shorter == SeqsUpTo(S, n - 1)
         IN  shorter \cup {Append(s, x) : s \in {t \in shorter : Len(t) = n - 1}, x \in S}

\* elements received so far in the responses logged in q
RECURSIVE Received(_)
Received(q) == IF q = <<>> THEN 0 ELSE q[Len(q)].size + Received(SubSeq(q, 1, Len(q) - 1))

\* the value arrays the provider may still return
Arrays(q) == SeqsUpTo(Items, MaxRecords - Received(q))

\* requests.get raised; raise_for_status raised
FailedCall == {"transport", "http_error"}

\* the body is no JSON, so that json() raised; the body is JSON but no object,
\* so that .get raised
MalformedBody == {"not_json", "not_object"}

\* the body is an object: without "value"; with a "value" that cannot be
\* iterated (null, a number); with a "value" that can (an array; a string or an
\* object iterate like an array of elements that are no objects)
Outcomes ==
    FailedCall \cup MalformedBody \cup {"no_value", "value_not_iterable", "value_array"}

\* what the log of queries keeps of an outcome: the call failed, its body was
\* malformed, or it was answered with an object, whose value could be
\* iterated or not
Status(outcome) ==
    IF outcome \in FailedCall THEN "failed"
    ELSE IF outcome \in MalformedBody THEN "malformed_body"
    ELSE IF outcome = "value_not_iterable" THEN "not_iterable"
    ELSE "answered"

----------------------------------------------------------------------------
(* get_emission_data *)

Init ==
    /\ pc = "request"
    /\ issued = <<>>
    /\ category = 0
    /\ data = <<>>
    /\ idx = 0
    /\ results = EmptyDict
    /\ averages = EmptyDict
    /\ shown = "none"
    /\ map_obj = EmptyDict
    /\ actions = EmptyDict

\* where the for loop over data goes once n items are taken
AfterItem(n, d) == IF n < Len(d) THEN "items" ELSE "request"

\* try: requests.get, raise_for_status, json().get("value", [])
\* except Exception: data = []
Fetched(outcome, array) == IF outcome = "value_array" THEN array ELSE <<>>

\* except requests.ConnectionError instead of except Exception
RaisesUncaughtHttpError(outcome) == outcome \in {"value_not_iterable", "http_error"}

\* what leaves the query with an exception: nothing raised inside the try
\* does; for item in data, outside it, does when data cannot be iterated
Raises(outcome) == outcome = "value_not_iterable"

\* the next category's query, up to the start of the loop over its records
Request ==
    /\ pc = "request"
    /\ category < Len(CategoryOrder)
    /\ \E outcome \in Outcomes :
         \E array \in IF outcome = "value_array" THEN Arrays(issued) ELSE {<<>>} :
            /\ category' = category + 1
            /\ issued' = Append(issued,
                   [category_key |-> categories[CategoryOrder[category + 1]],
                    status |-> Status(outcome),
                    size |-> Len(array)])
            /\ data' = Fetched(outcome, array)
            /\ idx' = 0
            /\ pc' = IF Raises(outcome) THEN "raised"
                     ELSE AfterItem(0, Fetched(outcome, array))
    /\ UNCHANGED <<results, averages, shown, map_obj, actions>>

\* sector_key used as the name, the table never consulted
SectorNameUntranslated(sector_key) == sector_key

\* sectors.get(sector_key, sector_key)
SectorName(sector_key) == Get(sectors, sector_key, sector_key)

\* duplicates added up instead of overwritten
NormaliseSumming(res, item, category_name) ==
    LET sector_key == item["Klimaatsector"]
        sector_name == SectorName(sector_key)
        old == Get(res, sector_name, EmptyDict)
    IN  IF sector_key = TotalRow THEN res
        ELSE Store(res, sector_name,
                   Store(old, category_name,
                         Get(old, category_name, 0)
                         + Get(item, "EmissieBroeikasgassen_1", 0)))

\* the total row not skipped
NormaliseKeepingTotalRow(res, item, category_name) ==
    LET sector_name == SectorName(item["Klimaatsector"])
    IN  Store(res, sector_name,
              Store(Get(res, sector_name, EmptyDict), category_name,
                    Get(item, "EmissieBroeikasgassen_1", 0)))

\* if sector_key == "T001616": continue
\* results.setdefault(sector_name, {})[category_name] = item.get(field, 0.0)
Normalise(res, item, category_name) ==
    LET sector_key == item["Klimaatsector"]
        sector_name == SectorName(sector_key)
    IN  IF sector_key = TotalRow THEN res
        ELSE Store(res, sector_name,
                   Store(Get(res, sector_name, EmptyDict), category_name,
                         Get(item, "EmissieBroeikasgassen_1", 0)))

\* one turn of the loop over data; item.get raises on an element that is no
\* object
NextItem ==
    /\ pc = "items"
    /\ idx < Len(data)
    /\ idx' = idx + 1
    /\ IF IsRecord(data[idx + 1])
       THEN /\ results' = Normalise(results, data[idx + 1], CategoryOrder[category])
            /\ pc' = AfterItem(idx + 1, data)
       ELSE /\ results' = results
            /\ pc' = "raised"
    /\ UNCHANGED <<issued, category, data, averages, shown, map_obj, actions>>

\* return results, into main's data; the other locals are gone
Return ==
    /\ pc = "request"
    /\ category = Len(CategoryOrder)
    /\ pc' = "averages"
    /\ category' = 0
    /\ data' = <<>>
    /\ idx' = 0
    /\ UNCHANGED <<issued, results, averages, shown, map_obj, actions>>

----------------------------------------------------------------------------
(* compute_average, create_map, interpret_data *)

Rat(n, d) == [num |-> n, den |-> d]

Zero == Rat(0, 1)

\* comparisons of a value with a fraction whose den is positive
Gt(v, r) == v * r.den > r.num
Le(v, r) == v * r.den <= r.num

\* sum of [vals.get(category, 0.0) for vals in data.values()], over the keys S
RECURSIVE SumValues(_, _, _)
SumValues(data_, category_, S) ==
    IF S = {} THEN 0
    ELSE LET s == CHOOSE x \in S : TRUE
         IN  Get(data_[s], category_, 0) + SumValues(data_, category_, S \ {s})

\* the mean over the sectors that have the category only
compute_average_of_present(data_, category_) ==
    LET having == {s \in DOMAIN data_ : category_ \in DOMAIN data_[s]}
    IN  IF having = {} THEN Zero
        ELSE Rat(SumValues(data_, category_, having), Cardinality(having))

\* statistics.mean(values) without the guard for no values
compute_average_unguarded(data_, category_) ==
    Rat(SumValues(data_, category_, DOMAIN data_), Cardinality(DOMAIN data_))

\* the sum, never divided
compute_average_undivided(data_, category_) ==
    Rat(SumValues(data_, category_, DOMAIN data_), 1)

\* statistics.mean(values) if values else 0.0
compute_average(data_, category_) ==
    IF DOMAIN data_ = {} THEN Zero
    ELSE Rat(SumValues(data_, category_, DOMAIN data_), Cardinality(DOMAIN data_))

\* main.sector_coords: the sectors that have a coordinate
sector_coords ==
    {"Industrie", "Elektriciteit", "Mobiliteit", "Landbouw",
     "Gebouwde omgeving", "Landgebruik"}

\* "green" if total_emission <= averages.get("total", 0.0) else "red"
marker_color(values, averages_) ==
    IF Le(Get(values, "total", 0), Get(averages_, "total", Zero)) THEN "green" ELSE "red"

\* the markers added to the map: none for a sector without a coordinate
create_map(data_, averages_, coords) ==
    [sector \in DOMAIN data_ \cap coords |-> marker_color(data_[sector], averages_)]

\* if total >= averages.get("total", 0.0)
at_or_above_average(values, averages_) ==
    LET r == Get(averages_, "total", Zero)
    IN  Get(values, "total", 0) * r.den >= r.num

\* if total > averages.get("total", 0.0)
above_average(values, averages_) ==
    Gt(Get(values, "total", 0), Get(averages_, "total", Zero))

\* the message reads averages['total']: a KeyError on the first sector above
\* the default when averages has no total
interpret_data_raises(data_, averages_) ==
    /\ "total" \notin DOMAIN averages_
    /\ \E sector \in DOMAIN data_ : above_average(data_[sector], averages_)

\* actions: the message is kept as the values it formats, in their order
interpret_data(data_, averages_) ==
    [sector \in {s \in DOMAIN data_ : above_average(data_[s], averages_)} |->
        <<sector, Get(data_[sector], "total", 0), averages_["total"]>>]

----------------------------------------------------------------------------
(* main, after get_emission_data returned *)

\* averages = {cat: compute_average(data, cat) for cat in [...]}
ComputeAverages ==
    /\ pc = "averages"
    /\ averages' = [cat \in {"total", "CO2", "other"} |-> compute_average(results, cat)]
    /\ pc' = "present"
    /\ UNCHANGED <<issued, category, data, idx, results, shown, map_obj, actions>>

\* if data: the map; else: the warning
Present ==
    /\ pc = "present"
    /\ IF results # EmptyDict
       THEN /\ map_obj' = create_map(results, averages, sector_coords)
            /\ shown' = "map"
       ELSE /\ map_obj' = map_obj
            /\ shown' = "warning"
    /\ pc' = "interpret"
    /\ UNCHANGED <<issued, category, data, idx, results, averages, actions>>

\* actions = interpret_data(data, averages), and the list written out
Interpret ==
    /\ pc = "interpret"
    /\ IF interpret_data_raises(results, averages)
       THEN /\ actions' = actions
            /\ pc' = "key_error"
       ELSE /\ actions' = interpret_data(results, averages)
            /\ pc' = "done"
    /\ UNCHANGED <<issued, category, data, idx, results, averages, shown, map_obj>>

Next == Request \/ NextItem \/ Return \/ ComputeAverages \/ Present \/ Interpret

Spec == Init /\ [][Next]_vars

----------------------------------------------------------------------------
(* The functions on their own: any data, any baselines *)

FnSectorOrder == <<"Industrie", "X000000", "Mobiliteit">>

FnSectors == {FnSectorOrder[i] : i \in 1..MaxSectors}

FnValues == {-1, 0, 1}

\* a sector's values: any of total and CO2 present, "other" never
FnDicts == UNION {[K -> FnValues] : K \in SUBSET {"total", "CO2"}}

DataInputs == UNION {[S -> FnDicts] : S \in SUBSET FnSectors}

\* baselines with a total of -1, 0, 1/2 or 1, and baselines without total
BaselineInputs ==
    {EmptyDict} \cup {[total |-> r] : r \in {Rat(-1, 1), Zero, Rat(1, 2), Rat(1, 1)}}

FnInit ==
    /\ pc = "call"
    /\ issued = <<>>
    /\ category = 0
    /\ data = <<>>
    /\ idx = 0
    /\ results \in DataInputs
    /\ averages \in BaselineInputs
    /\ shown = "none"
    /\ map_obj = EmptyDict
    /\ actions = EmptyDict

CallComputeAverage ==
    /\ pc = "call"
    /\ \E cat \in {"total", "CO2", "other"} :
         averages' = [c \in {cat} |-> compute_average(results, cat)]
    /\ pc' = "averaged"
    /\ UNCHANGED <<issued, category, data, idx, results, shown, map_obj, actions>>

CallCreateMap ==
    /\ pc = "call"
    /\ map_obj' = create_map(results, averages, sector_coords)
    /\ pc' = "mapped"
    /\ UNCHANGED <<issued, category, data, idx, results, averages, shown, actions>>

CallInterpretData ==
    /\ pc = "mapped"
    /\ IF interpret_data_raises(results, averages)
       THEN /\ actions' = actions
            /\ pc' = "key_error"
       ELSE /\ actions' = interpret_data(results, averages)
            /\ pc' = "interpreted"
    /\ UNCHANGED <<issued, category, data, idx, results, averages, shown, map_obj>>

FnNext == CallComputeAverage \/ CallCreateMap \/ CallInterpretData

SpecFn == FnInit /\ [][FnNext]_vars

----------------------------------------------------------------------------
(* Vocabulary of the properties *)

InFetch == pc \in {"request", "items", "raised"}

InMain == pc \in {"averages", "present", "interpret", "done", "key_error"}

\* the category a logged query asked for
CategoryOf(query) == CHOOSE c \in DOMAIN categories : categories[c] = query.category_key

\* the sectors of res that hold a value for category c
Holding(res, c) == {s \in DOMAIN res : c \in DOMAIN res[s]}

\* the records among the first n elements of d that stand for a sector
SectorRecords(d, n) ==
    {i \in 1..n : IsRecord(d[i]) /\ d[i]["Klimaatsector"] # TotalRow}

KnownCodes ==
    {"A050123", "A050124", "A050125", "A050126", "A050127", "A052138"}

\* the name a code is to be stored under
ExpectedName(code) ==
    CASE code = "A050123" -> "Industrie"
      [] code = "A050124" -> "Elektriciteit"
      [] code = "A050125" -> "Mobiliteit"
      [] code = "A050126" -> "Landbouw"
      [] code = "A050127" -> "Gebouwde omgeving"
      [] code = "A052138" -> "Landgebruik"
      [] OTHER -> code

TotalOf(res, s) == IF "total" \in DOMAIN res[s] THEN res[s]["total"] ELSE 0

----------------------------------------------------------------------------
(* C1 *)

\* every failed call so far left its category without a value, and the loop
\* over its records with nothing to take
FailedCallsAreEmpty ==
    /\ \A k \in 1..Len(issued) :
         issued[k].status = "failed" =>
            /\ Holding(results, CategoryOf(issued[k])) = {}
            /\ (InFetch /\ k = Len(issued)) => (pc = "request" /\ data = <<>>)
    /\ (InMain /\ \A k \in 1..Len(issued) : issued[k].status = "failed")
          => results = EmptyDict

\* C1: a failed provider call (transport error, non-2xx status, a throwing
\* call) never makes get_emission_data raise and counts as an empty record
\* set: its category has no value in any sector of the result, the loop over
\* its records has nothing to take, and when all three calls failed the result
\* is the empty mapping; the step that meets the failure leaves the result as
\* it was, so the categories that succeeded stay reflected in it.
C1_FailedCallIsEmptyRecordSet ==
    /\ []FailedCallsAreEmpty
    /\ [][(/\ Len(issued') = Len(issued) + 1
           /\ issued'[Len(issued')].status = "failed")
          => (results' = results /\ pc' = "request" /\ data' = <<>>)]_vars

\* get_emission_data returned with the total and the other query failed and
\* the CO2 query reflected in the result
C1_Witness ==
    /\ pc = "averages"
    /\ issued[1].status = "failed"
    /\ issued[2].status = "answered"
    /\ issued[3].status = "failed"
    /\ Holding(results, "CO2") # {}

\* get_emission_data returned with all three calls failed
C1_WitnessAllFailed ==
    /\ pc = "averages"
    /\ \A k \in 1..3 : issued[k].status = "failed"
    /\ results = EmptyDict

----------------------------------------------------------------------------
(* C2 *)

\* the payload of the current query has an unexpected shape
MalformedPayload ==
    /\ InFetch
    /\ issued # <<>>
    /\ \/ issued[Len(issued)].status \in {"malformed_body", "not_iterable"}
       \/ \E i \in 1..Len(data) : ~ IsRecord(data[i])

\* C2: a payload of an unexpected shape (a body that is no JSON object, a value
\* that is no array, array elements that are no records) is recovered like a
\* transport failure:
\* get_emission_data does not raise and the category contributes no record.
C2_MalformedPayloadRecovered ==
    MalformedPayload =>
        /\ pc # "raised"
        /\ Holding(results, CategoryOf(issued[Len(issued)])) = {}

----------------------------------------------------------------------------
(* C3 *)

\* the last of the first n elements of d that is a record of the sector name
LastRecordOf(d, n, name) ==
    CHOOSE i \in SectorRecords(d, n) :
        /\ ExpectedName(d[i]["Klimaatsector"]) = name
        /\ \A j \in SectorRecords(d, n) :
             ExpectedName(d[j]["Klimaatsector"]) = name => j <= i

\* C3: last write wins: of the records of the current category taken so far,
\* the value stored for a sector is the value of the last record of that
\* sector (0 when that record omits the value), whatever the earlier records
\* of the sector carried.
C3_LastWriteWins ==
    (InFetch /\ category > 0) =>
        \A i \in SectorRecords(data, IF pc = "raised" THEN idx - 1 ELSE idx) :
            LET name == ExpectedName(data[i]["Klimaatsector"])
                last == data[LastRecordOf(data, IF pc = "raised" THEN idx - 1 ELSE idx, name)]
            IN  /\ name \in DOMAIN results
                /\ CategoryOrder[category] \in DOMAIN results[name]
                /\ results[name][CategoryOrder[category]] =
                     (IF "EmissieBroeikasgassen_1" \in DOMAIN last
                      THEN last["EmissieBroeikasgassen_1"] ELSE 0)

\* two records of one sector with differing values have been taken
C3_Witness ==
    /\ pc = "request"
    /\ idx = 2
    /\ data[1] = [Klimaatsector |-> "A050123", EmissieBroeikasgassen_1 |-> 1]
    /\ data[2] = [Klimaatsector |-> "A050123", EmissieBroeikasgassen_1 |-> -1]
    /\ results["Industrie"][CategoryOrder[category]] = -1

----------------------------------------------------------------------------
(* C4 *)

\* C4: rows of the total row's code are discarded: the code is never a sector
\* key of the result, and taking such a record changes nothing in the result.
C4_TotalRowDiscarded ==
    /\ [](TotalRow \notin DOMAIN results)
    /\ [][(/\ pc = "items"
           /\ IsRecord(data[idx + 1])
           /\ data[idx + 1]["Klimaatsector"] = TotalRow) => results' = results]_vars

\* a total row was taken after a sector's record, and the result holds the
\* sector only
C4_Witness ==
    /\ InFetch
    /\ idx = 2
    /\ IsRecord(data[1]) /\ data[1]["Klimaatsector"] = "X000000"
    /\ IsRecord(data[2]) /\ data[2]["Klimaatsector"] = TotalRow
    /\ "EmissieBroeikasgassen_1" \in DOMAIN data[2]
    /\ DOMAIN results = {"X000000"}

----------------------------------------------------------------------------
(* C5 *)

\* C5: sector-name resolution: every record taken that is not the total row is
\* stored under the canonical name when its code is one of the six known
\* codes, and under the code itself when it is not; no other key exists.
C5_NameResolution ==
    /\ (InFetch /\ category > 0) =>
         \A i \in SectorRecords(data, IF pc = "raised" THEN idx - 1 ELSE idx) :
            LET code == data[i]["Klimaatsector"]
            IN  /\ code \in KnownCodes
                     => /\ ExpectedName(code) # code
                        /\ CategoryOrder[category] \in
                              DOMAIN Get(results, ExpectedName(code), EmptyDict)
                /\ code \notin KnownCodes
                     => CategoryOrder[category] \in DOMAIN Get(results, code, EmptyDict)
    /\ DOMAIN results \subseteq {ExpectedName(code) : code \in ProviderCodes \ {TotalRow}}
    /\ DOMAIN results \cap KnownCodes = {}

\* a record of a known code and one of an unknown code have been stored
C5_Witness ==
    /\ pc = "request"
    /\ idx = 2
    /\ data[1]["Klimaatsector"] = "X000000"
    /\ data[2]["Klimaatsector"] = "A050123"
    /\ DOMAIN results = {"X000000", "Industrie"}

----------------------------------------------------------------------------
(* C6 *)

\* sum over the sectors S of den * value - num: 0 exactly when num / den is
\* the mean of the values
RECURSIVE Deviation(_, _, _, _)
Deviation(res, c, r, S) ==
    IF S = {} THEN 0
    ELSE LET s == CHOOSE x \in S : TRUE
         IN  (r.den * (IF c \in DOMAIN res[s] THEN res[s][c] ELSE 0) - r.num)
             + Deviation(res, c, r, S \ {s})

\* C6: compute_average(data, category) is the mean, over every sector of data,
\* of the sector's value for the category, a sector without the category
\* counting as 0 and counting in the denominator; it is 0 for data without
\* sectors, and it is v when every sector has the value v.
C6_AverageIsMean ==
    pc = "averaged" =>
        \A c \in DOMAIN averages :
            /\ averages[c].den > 0
            /\ results = EmptyDict => averages[c] = Zero
            /\ results # EmptyDict =>
                 /\ averages[c].den = Cardinality(DOMAIN results)
                 /\ Deviation(results, c, averages[c], DOMAIN results) = 0
            /\ \A v \in FnValues :
                 (/\ results # EmptyDict
                  /\ \A s \in DOMAIN results : c \in DOMAIN results[s] /\ results[s][c] = v)
                    => averages[c].num = v * averages[c].den

\* the average of total was computed over a sector with total 1 and a sector
\* without total: 1/2
C6_Witness ==
    /\ pc = "averaged"
    /\ DOMAIN averages = {"total"}
    /\ DOMAIN results = {"Industrie", "X000000"}
    /\ "total" \in DOMAIN results["Industrie"] /\ results["Industrie"]["total"] = 1
    /\ "total" \notin DOMAIN results["X000000"]
    /\ averages["total"].num = 1 /\ averages["total"].den = 2

\* the average was computed over sectors that all have the value -1
C6_WitnessSameValue ==
    /\ pc = "averaged"
    /\ DOMAIN averages = {"CO2"}
    /\ Cardinality(DOMAIN results) = 2
    /\ \A s \in DOMAIN results : "CO2" \in DOMAIN results[s] /\ results[s]["CO2"] = -1
    /\ averages["CO2"].num = -1 * averages["CO2"].den

----------------------------------------------------------------------------
(* C7 *)

\* the sectors of results whose total (0 when absent) is strictly greater
\* than the baseline of total
StrictlyAbove ==
    {s \in DOMAIN results :
        TotalOf(results, s) * averages["total"].den > averages["total"].num}

\* C7: for baselines that hold a total, the keys of interpret_data are exactly
\* the sectors whose total is strictly greater than it; a sector at the
\* baseline has no entry; and the keys that have a coordinate are exactly the
\* red markers of create_map.
C7_ActionsAreStrictlyAbove ==
    (pc = "interpreted" /\ "total" \in DOMAIN averages) =>
        /\ DOMAIN actions = StrictlyAbove
        /\ \A s \in DOMAIN results :
             TotalOf(results, s) * averages["total"].den = averages["total"].num
                => s \notin DOMAIN actions
        /\ {s \in DOMAIN map_obj : map_obj[s] = "red"} = DOMAIN actions \cap sector_coords
        /\ DOMAIN map_obj = DOMAIN results \cap sector_coords

\* baseline 1: a sector at the baseline without entry, green; a sector without
\* total and no coordinate without entry
C7_WitnessAtBaseline ==
    /\ pc = "interpreted"
    /\ averages = [total |-> Rat(1, 1)]
    /\ DOMAIN results = {"Industrie", "X000000"}
    /\ "total" \in DOMAIN results["Industrie"] /\ results["Industrie"]["total"] = 1
    /\ "total" \notin DOMAIN results["X000000"]
    /\ actions = EmptyDict
    /\ map_obj = [Industrie |-> "green"]

\* baseline 1/2: the sector above it has an entry and is red; the sector
\* without coordinate above it has an entry and no marker
C7_Witness ==
    /\ pc = "interpreted"
    /\ averages = [total |-> Rat(1, 2)]
    /\ DOMAIN results = {"Industrie", "X000000"}
    /\ DOMAIN actions = {"Industrie", "X000000"}
    /\ map_obj = [Industrie |-> "red"]

----------------------------------------------------------------------------
(* C8 *)

\* C8: when get_emission_data returned no sector, main runs to its end without
\* an error: every baseline is 0, the warning is shown and no map, and
\* interpret_data returns the empty mapping.
C8_EmptyResultIsTerminal ==
    (InMain /\ results = EmptyDict) =>
        /\ pc # "key_error"
        /\ pc = "done" \/ ENABLED Next
        /\ pc \in {"present", "interpret", "done"} =>
             /\ DOMAIN averages = {"total", "CO2", "other"}
             /\ \A c \in DOMAIN averages : averages[c].num = 0 /\ averages[c].den = 1
        /\ pc \in {"interpret", "done"} => (shown = "warning" /\ map_obj = EmptyDict)
        /\ pc = "done" => actions = EmptyDict

\* main ended on the empty result of three failed calls
C8_Witness ==
    /\ pc = "done"
    /\ results = EmptyDict
    /\ \A k \in 1..3 : issued[k].status \in {"failed", "malformed_body"}
    /\ shown = "warning"
    /\ actions = EmptyDict

----------------------------------------------------------------------------
(* C9 *)

\* C9: every run of get_emission_data issues exactly three queries, for
\* total, CO2 and other in this order, none of them twice, whatever the
\* earlier queries met.
C9_ThreeQueriesInOrder ==
    (pc \notin {"request", "items"} \/ (pc = "request" /\ category = 3)) =>
        /\ Len(issued) = 3
        /\ issued[1].category_key = "T001372"
        /\ issued[2].category_key = "A044109"
        /\ issued[3].category_key = "A050122"

----------------------------------------------------------------------------
(* C10 *)

\* C10: with the baselines main computes from non-empty data, some sector of
\* the data has no action item: the keys of interpret_data are a proper subset
\* of the sectors.
C10_SomeSectorNotAbove ==
    (pc = "done" /\ results # EmptyDict) =>
        /\ DOMAIN actions \subseteq DOMAIN results
        /\ DOMAIN actions # DOMAIN results

\* a negative total and a missing total: the sector without total is above
\* the average of -1/2
C10_Witness ==
    /\ pc = "done"
    /\ DOMAIN results = {"Industrie", "X000000"}
    /\ "total" \in DOMAIN results["Industrie"] /\ results["Industrie"]["total"] = -1
    /\ "total" \notin DOMAIN results["X000000"]
    /\ DOMAIN actions = {"X000000"}

====
